---------------------------- MODULE Spec2Model ----------------------------
(***************************************************************************)
(* Model of tools/file_session.go: the file-backed DNSSEC key session.     *)
(*                                                                         *)
(* A stream (io.ReadWriteSeeker) is a byte sequence with a cursor.  Bytes  *)
(* are abstracted to symbols: the PEM markers, the PKCS#8 algorithm tag,   *)
(* the key identity, one "m" per 1024 bits of RSA modulus, and "x" for     *)
(* anything that is no part of a key.                                      *)
(***************************************************************************)
EXTENDS Naturals, Sequences, FiniteSets

VARIABLES
    signAlgorithm,  \* session.ctx.SignAlgorithm
    createKeys,     \* session.ctx.Config.CreateKeys
    zskFile,        \* session.zskFile: [data, pos]
    kskFile,        \* session.kskFile: [data, pos]
    entropy,        \* number of keys drawn from rand.Reader so far
    calls,          \* number of GetKeys calls made so far
    keys,           \* the *SigKeys the caller holds (<<>> is nil)
    arg,            \* the *SigKeys passed to the last call (<<>> if it takes none)
    ret,            \* what the last call returned
    log,            \* the stream and generator operations of the last call, in order
    before          \* the streams as they were when the last call began

vars == <<signAlgorithm, createKeys, zskFile, kskFile, entropy, calls, keys, arg, ret, log, before>>

(***************************************************************************)
(* Bounds                                                                  *)
(***************************************************************************)
MaxCalls == 2

(***************************************************************************)
(* Context                                                                 *)
(***************************************************************************)
RsaSha256 == "RSA_SHA256"

EcdsaP256Sha256 == "ECDSA_P256_SHA256"

\* Any value of the enumeration that the switches do not name.
OtherAlgorithm == "OTHER"

SignAlgorithms == {RsaSha256, EcdsaP256Sha256, OtherAlgorithm}

Supported(alg) == alg \in {RsaSha256, EcdsaP256Sha256}

(***************************************************************************)
(* Keys and their encoding                                                 *)
(***************************************************************************)
\* Identities of the keys rand.Reader yields, in the order they are drawn.
FreshIds == <<"n1", "n2", "n3", "n4", "n5", "n6", "n7", "n8">>

RSAKey(bits, id) == [fam |-> "RSA", bits |-> bits, id |-> id]

ECKey(id) == [fam |-> "EC", bits |-> 256, id |-> id]

Repeat(b, n) == [i \in 1..n |-> b]

\* x509.MarshalPKCS8PrivateKey: algorithm tag, key, modulus length.
MarshalPKCS8PrivateKey(sk) ==
    IF sk.fam = "RSA"
    THEN <<"rsa", sk.id>> \o Repeat("m", sk.bits \div 1024)
    ELSE <<"ec", sk.id>>

\* pem.EncodeToMemory(&pem.Block{Type: "PRIVATE KEY", Bytes: der})
EncodeToMemory(der) == <<"BEGIN">> \o der \o <<"END">>

\* x509.ParsePKCS8PrivateKey: <<key>> or <<>> when der is no PKCS#8 key.
ParsePKCS8PrivateKey(der) ==
    IF Len(der) >= 3 /\ der[1] = "rsa"
          /\ der[2] \notin {"BEGIN", "END", "rsa", "ec", "m", "x"}
          /\ \A i \in 3..Len(der) : der[i] = "m"
    THEN <<RSAKey(1024 * (Len(der) - 2), der[2])>>
    ELSE IF Len(der) = 2 /\ der[1] = "ec"
          /\ der[2] \notin {"BEGIN", "END", "rsa", "ec", "m", "x"}
    THEN <<ECKey(der[2])>>
    ELSE <<>>

\* Index of the first b in s at or after i, 0 if none.
IndexFrom(s, b, i) ==
    IF \E j \in i..Len(s) : s[j] = b
    THEN CHOOSE j \in i..Len(s) : s[j] = b /\ \A k \in i..(j - 1) : s[k] # b
    ELSE 0

\* pem.Decode: the body of the first well-formed block of data, as <<body>>,
\* or <<>> when data holds none.  A BEGIN whose block is not closed, or is
\* interrupted by another BEGIN, is skipped and the search goes on after it.
RECURSIVE Decode(_)
Decode(data) ==
    LET b == IndexFrom(data, "BEGIN", 1)
        e == IF b = 0 THEN 0 ELSE IndexFrom(data, "END", b + 1)
    IN  IF b = 0 \/ e = 0 THEN <<>>
        ELSE IF \A k \in (b + 1)..(e - 1) : data[k] # "BEGIN"
        THEN <<SubSeq(data, b + 1, e - 1)>>
        ELSE Decode(SubSeq(data, b + 1, Len(data)))

(***************************************************************************)
(* Streams                                                                 *)
(***************************************************************************)
File(data, pos) == [data |-> data, pos |-> pos]

\* io.Writer on a seekable stream: p replaces the bytes at the cursor and
\* extends the stream past its end; nothing is truncated.  A failed Write
\* writes nothing.
Write(f, p, ok) ==
    IF ok
    THEN File(SubSeq(f.data, 1, f.pos) \o p
                \o SubSeq(f.data, f.pos + Len(p) + 1, Len(f.data)),
              f.pos + Len(p))
    ELSE f

\* Seek(0, io.SeekStart); a failed Seek leaves the cursor where it was.
SeekStart(f, ok) == IF ok THEN File(f.data, 0) ELSE f

\* ioutil.ReadAll: the bytes from the cursor to the end.
ReadAll(f) == SubSeq(f.data, f.pos + 1, Len(f.data))

AfterReadAll(f) == File(f.data, Len(f.data))

\* readerToPrivateKey: read the stream to its end, decode the first PEM
\* block, parse it as PKCS#8.  <<key>>, or <<>> for a decode error.
readerToPrivateKey(f) ==
    LET block == Decode(ReadAll(f))
    IN  IF block = <<>> THEN <<>> ELSE ParsePKCS8PrivateKey(block[1])

(***************************************************************************)
(* Key generation                                                          *)
(***************************************************************************)
\* What the environment decides during one call: whether rand.Reader and the
\* PKCS#8 marshalling deliver, and whether each Write and Seek succeeds.
GenOutcomes == {"ok", "generate", "marshal"}

AllInputs ==
    [genKsk : GenOutcomes, genZsk : GenOutcomes,
     writeKsk : BOOLEAN, seekKsk : BOOLEAN,
     writeZsk : BOOLEAN, seekZsk : BOOLEAN]

\* The decisions that are asked for: generateKeys returns at the first key
\* it cannot generate, so what would have come after is left at one value.
Inputs ==
    {in \in AllInputs :
        /\ in.genKsk # "ok"
              => in.genZsk = "ok" /\ in.writeKsk /\ in.seekKsk
        /\ (in.genKsk # "ok" \/ in.genZsk # "ok")
              => in.writeZsk /\ in.seekZsk}

\* With CreateKeys off nothing is asked of the environment.
NoInputs == {in \in Inputs : in = [genKsk |-> "ok", genZsk |-> "ok",
                                   writeKsk |-> TRUE, seekKsk |-> TRUE,
                                   writeZsk |-> TRUE, seekZsk |-> TRUE]}

Ev(op, role, ok, at) == [op |-> op, role |-> role, ok |-> ok, at |-> at]

\* The result of one generate*Key call: the PEM bytes, the error, the key
\* that was drawn (<<>> if none) and the entropy counter afterwards.
Generated(sk, ent, outcome) ==
    [bytes |-> IF outcome = "ok"
               THEN EncodeToMemory(MarshalPKCS8PrivateKey(sk)) ELSE <<>>,
     err |-> IF outcome = "ok" THEN "nil" ELSE outcome,
     key |-> IF outcome = "ok" THEN <<sk>> ELSE <<>>,
     entropy |-> IF outcome = "generate" THEN ent ELSE ent + 1]

generateRSAKey(bits, ent, outcome) ==
    Generated(RSAKey(bits, FreshIds[ent + 1]), ent, outcome)

generateECDSAKey(ent, outcome) ==
    Generated(ECKey(FreshIds[ent + 1]), ent, outcome)

KskBits == 2048

ZskBits == 1024

generateKsk(alg, ent, outcome) ==
    IF alg = RsaSha256 THEN generateRSAKey(KskBits, ent, outcome)
    ELSE generateECDSAKey(ent, outcome)

generateZsk(alg, ent, outcome) ==
    IF alg = RsaSha256 THEN generateRSAKey(ZskBits, ent, outcome)
    ELSE generateECDSAKey(ent, outcome)

\* The outcome of generateKeys: its error, the two streams and the entropy
\* counter afterwards, the keys it drew and the operations it performed.
GenResult(err, zf, kf, ent, newKsk, newZsk, ops) ==
    [err |-> err, zskFile |-> zf, kskFile |-> kf, entropy |-> ent,
     newKsk |-> newKsk, newZsk |-> newZsk, log |-> ops]

\* Mutant: both keys are generated before either is written.
persistKeysZskFirst(alg, zf, kf, kgen, in) ==
    LET zgen == generateZsk(alg, kgen.entropy, in.genZsk)
        kw   == Write(kf, kgen.bytes, in.writeKsk)
        ks   == SeekStart(kw, in.seekKsk)
        zw   == Write(zf, zgen.bytes, in.writeZsk)
        zs   == SeekStart(zw, in.seekZsk)
    IN  IF zgen.err # "nil"
        THEN GenResult(zgen.err, zf, kf, zgen.entropy, kgen.key, <<>>,
                       <<Ev("gen", "ksk", TRUE, 0), Ev("gen", "zsk", FALSE, 0)>>)
        ELSE GenResult("nil", zs, ks, zgen.entropy, kgen.key, zgen.key,
                       <<Ev("gen", "ksk", TRUE, 0), Ev("gen", "zsk", TRUE, 0),
                         Ev("write", "ksk", in.writeKsk, kf.pos),
                         Ev("seek", "ksk", in.seekKsk, kw.pos),
                         Ev("write", "zsk", in.writeZsk, zf.pos),
                         Ev("seek", "zsk", in.seekZsk, zw.pos)>>)

\* The part of a case of generateKeys after the KSK bytes are there: the
\* results of both Write and both Seek calls are dropped.
persistKeys(alg, zf, kf, kgen, in) ==
    LET kw   == Write(kf, kgen.bytes, in.writeKsk)
        ks   == SeekStart(kw, in.seekKsk)
        zgen == generateZsk(alg, kgen.entropy, in.genZsk)
        zw   == Write(zf, zgen.bytes, in.writeZsk)
        zs   == SeekStart(zw, in.seekZsk)
        kops == <<Ev("gen", "ksk", TRUE, 0),
                  Ev("write", "ksk", in.writeKsk, kf.pos),
                  Ev("seek", "ksk", in.seekKsk, kw.pos)>>
    IN  IF zgen.err # "nil"
        THEN GenResult(zgen.err, zf, ks, zgen.entropy, kgen.key, <<>>,
                       kops \o <<Ev("gen", "zsk", FALSE, 0)>>)
        ELSE GenResult("nil", zs, ks, zgen.entropy, kgen.key, zgen.key,
                       kops \o <<Ev("gen", "zsk", TRUE, 0),
                                 Ev("write", "zsk", in.writeZsk, zf.pos),
                                 Ev("seek", "zsk", in.seekZsk, zw.pos)>>)

\* Mutant: the switch has no default case, an unnamed algorithm takes the
\* last one.
generateKeysNoDefault(alg, zf, kf, ent, in) ==
    LET kgen == generateKsk(alg, ent, in.genKsk)
    IN  IF kgen.err # "nil"
        THEN GenResult(kgen.err, zf, kf, kgen.entropy, <<>>, <<>>,
                       <<Ev("gen", "ksk", FALSE, 0)>>)
        ELSE persistKeys(alg, zf, kf, kgen, in)

generateKeys(alg, zf, kf, ent, in) ==
    IF ~Supported(alg)
    THEN GenResult("undefined sign algorithm", zf, kf, ent, <<>>, <<>>, <<>>)
    ELSE LET kgen == generateKsk(alg, ent, in.genKsk)
         IN  IF kgen.err # "nil"
             THEN GenResult(kgen.err, zf, kf, kgen.entropy, <<>>, <<>>,
                            <<Ev("gen", "ksk", FALSE, 0)>>)
             ELSE persistKeys(alg, zf, kf, kgen, in)

\* GetKeys when CreateKeys is off: generateKeys is not called.
NotGenerated(zf, kf, ent) == GenResult("nil", zf, kf, ent, <<>>, <<>>, <<>>)

(***************************************************************************)
(* The session's operations                                                *)
(***************************************************************************)
SigKeys(zsk, ksk) == [zskSigner |-> zsk, kskSigner |-> ksk]

Snapshot ==
    [zsk |-> zskFile, ksk |-> kskFile,
     signAlgorithm |-> signAlgorithm, createKeys |-> createKeys,
     entropy |-> entropy, keys |-> keys]

Ret(op, err, ks, zskBytes, kskBytes, newKsk, newZsk) ==
    [op |-> op, err |-> err, keys |-> ks,
     zskBytes |-> zskBytes, kskBytes |-> kskBytes,
     newKsk |-> newKsk, newZsk |-> newZsk]

\* Mutant: the KSK stream is read first.
readBothKskFirst(g) ==
    LET zsk == readerToPrivateKey(g.zskFile)
        ksk == readerToPrivateKey(g.kskFile)
        zop == Ev("read", "zsk", zsk # <<>>, g.zskFile.pos)
        kop == Ev("read", "ksk", ksk # <<>>, g.kskFile.pos)
    IN  [err |-> IF zsk = <<>> \/ ksk = <<>> THEN "decode" ELSE "nil",
         keys |-> IF zsk = <<>> \/ ksk = <<>> THEN <<>>
                  ELSE <<SigKeys(zsk[1], ksk[1])>>,
         zskFile |-> IF ksk = <<>> THEN g.zskFile ELSE AfterReadAll(g.zskFile),
         kskFile |-> AfterReadAll(g.kskFile),
         log |-> g.log \o (IF ksk = <<>> THEN <<kop>> ELSE <<kop, zop>>)]

\* The two reads of GetKeys, ZSK first; a ZSK that does not decode ends the
\* call before the KSK stream is read.
readBoth(g) ==
    LET zsk == readerToPrivateKey(g.zskFile)
        ksk == readerToPrivateKey(g.kskFile)
        zop == Ev("read", "zsk", zsk # <<>>, g.zskFile.pos)
        kop == Ev("read", "ksk", ksk # <<>>, g.kskFile.pos)
    IN  [err |-> IF zsk = <<>> \/ ksk = <<>> THEN "decode" ELSE "nil",
         keys |-> IF zsk = <<>> \/ ksk = <<>> THEN <<>>
                  ELSE <<SigKeys(zsk[1], ksk[1])>>,
         zskFile |-> AfterReadAll(g.zskFile),
         kskFile |-> IF zsk = <<>> THEN g.kskFile ELSE AfterReadAll(g.kskFile),
         log |-> g.log \o (IF zsk = <<>> THEN <<zop>> ELSE <<zop, kop>>)]

\* Mutant: the error of generateKeys is dropped and the streams are read.
loadKeysIgnoresError(g) == readBoth(g)

\* GetKeys after the CreateKeys branch: an error of generateKeys is
\* returned as it is, otherwise the two streams are read.
loadKeys(g) ==
    IF g.err # "nil"
    THEN [err |-> g.err, keys |-> <<>>, zskFile |-> g.zskFile,
          kskFile |-> g.kskFile, log |-> g.log]
    ELSE readBoth(g)

\* The body of GetKeys, by the value it reads from ctx.Config.CreateKeys.
getKeysStep(create) ==
    /\ calls < MaxCalls
    /\ \E in \in (IF create THEN Inputs ELSE NoInputs) :
         LET g == IF create
                  THEN generateKeys(signAlgorithm, zskFile, kskFile, entropy, in)
                  ELSE NotGenerated(zskFile, kskFile, entropy)
             r == loadKeys(g)
         IN  /\ zskFile' = r.zskFile
             /\ kskFile' = r.kskFile
             /\ entropy' = g.entropy
             /\ keys' = IF r.err = "nil" THEN r.keys ELSE keys
             /\ ret' = Ret("GetKeys", r.err, r.keys, <<>>, <<>>, g.newKsk, g.newZsk)
             /\ log' = r.log
    /\ calls' = calls + 1
    /\ arg' = <<>>
    /\ before' = Snapshot
    /\ UNCHANGED <<signAlgorithm, createKeys>>

\* Mutant: the CreateKeys flag is not consulted.
GetKeysAlwaysGenerates == getKeysStep(TRUE)

GetKeys == getKeysStep(createKeys)

\* getRSAPubKeyBytes / getECDSAPubKeyBytes: the DNSKEY encoding of the
\* signer's public key, an error when the key is of the other family.
PubKeyBytes(fam, signer) ==
    IF signer.fam = fam
    THEN [bytes |-> <<"pub", signer.id>>, err |-> "nil"]
    ELSE [bytes |-> <<>>, err |-> "wrong key type"]

getRSAPubKeyBytes(signer) == PubKeyBytes("RSA", signer)

getECDSAPubKeyBytes(signer) == PubKeyBytes("EC", signer)

keyFun(alg, signer) ==
    IF alg = RsaSha256 THEN getRSAPubKeyBytes(signer)
    ELSE getECDSAPubKeyBytes(signer)

\* Mutant: the two results are returned in the order they were computed.
publicKeyBytesSwapped(alg, ks) ==
    LET k == keyFun(alg, ks.kskSigner)
        z == keyFun(alg, ks.zskSigner)
    IN  IF ~Supported(alg)
        THEN [zskBytes |-> <<>>, kskBytes |-> <<>>,
              err |-> "undefined sign algorithm", log |-> <<>>]
        ELSE IF k.err # "nil"
        THEN [zskBytes |-> k.bytes, kskBytes |-> <<>>, err |-> k.err,
              log |-> <<Ev("encode", "ksk", FALSE, 0)>>]
        ELSE [zskBytes |-> k.bytes, kskBytes |-> z.bytes, err |-> z.err,
              log |-> <<Ev("encode", "ksk", TRUE, 0),
                        Ev("encode", "zsk", z.err = "nil", 0)>>]

\* Mutant: an error of the ZSK encoding clears the KSK bytes.
publicKeyBytesClearsOnError(alg, ks) ==
    LET k == keyFun(alg, ks.kskSigner)
        z == keyFun(alg, ks.zskSigner)
    IN  IF ~Supported(alg)
        THEN [zskBytes |-> <<>>, kskBytes |-> <<>>,
              err |-> "undefined sign algorithm", log |-> <<>>]
        ELSE IF k.err # "nil"
        THEN [zskBytes |-> <<>>, kskBytes |-> <<>>, err |-> k.err,
              log |-> <<Ev("encode", "ksk", FALSE, 0)>>]
        ELSE [zskBytes |-> IF z.err = "nil" THEN z.bytes ELSE <<>>,
              kskBytes |-> IF z.err = "nil" THEN k.bytes ELSE <<>>,
              err |-> z.err,
              log |-> <<Ev("encode", "ksk", TRUE, 0),
                        Ev("encode", "zsk", z.err = "nil", 0)>>]

\* GetPublicKeyBytes(keys): the named results zskBytes, kskBytes, err and
\* the encoder calls made.
publicKeyBytes(alg, ks) ==
    LET k == keyFun(alg, ks.kskSigner)
        z == keyFun(alg, ks.zskSigner)
    IN  IF ~Supported(alg)
        THEN [zskBytes |-> <<>>, kskBytes |-> <<>>,
              err |-> "undefined sign algorithm", log |-> <<>>]
        ELSE IF k.err # "nil"
        THEN [zskBytes |-> <<>>, kskBytes |-> k.bytes, err |-> k.err,
              log |-> <<Ev("encode", "ksk", FALSE, 0)>>]
        ELSE [zskBytes |-> z.bytes, kskBytes |-> k.bytes, err |-> z.err,
              log |-> <<Ev("encode", "ksk", TRUE, 0),
                        Ev("encode", "zsk", z.err = "nil", 0)>>]

\* The *SigKeys a caller may pass: the ones GetKeys gave it, or ones it has
\* from an earlier run, of either family.
CallerKeys ==
    {ks[1] : ks \in {keys} \ {<<>>}}
      \cup {SigKeys(z, k) : z \in {RSAKey(ZskBits, "z0"), ECKey("z0")},
                            k \in {RSAKey(KskBits, "k0"), ECKey("k0")}}

GetPublicKeyBytes ==
    /\ \E ks \in CallerKeys :
       LET r == publicKeyBytes(signAlgorithm, ks)
       IN  /\ ret' = Ret("GetPublicKeyBytes", r.err, <<>>, r.zskBytes, r.kskBytes, <<>>, <<>>)
           /\ log' = r.log
           /\ arg' = <<ks>>
    /\ before' = Snapshot
    /\ UNCHANGED <<signAlgorithm, createKeys, zskFile, kskFile, entropy, calls, keys>>

\* Mutant: destroying the keys empties the two streams.
DestroyAllKeysWipes ==
    /\ zskFile' = File(<<>>, 0)
    /\ kskFile' = File(<<>>, 0)
    /\ ret' = Ret("DestroyAllKeys", "nil", <<>>, <<>>, <<>>, <<>>, <<>>)
    /\ log' = <<>>
    /\ arg' = <<>>
    /\ before' = Snapshot
    /\ UNCHANGED <<signAlgorithm, createKeys, entropy, calls, keys>>

DestroyAllKeys ==
    /\ ret' = Ret("DestroyAllKeys", "nil", <<>>, <<>>, <<>>, <<>>, <<>>)
    /\ log' = <<>>
    /\ arg' = <<>>
    /\ before' = Snapshot
    /\ UNCHANGED <<signAlgorithm, createKeys, zskFile, kskFile, entropy, calls, keys>>

End ==
    /\ ret' = Ret("End", "nil", <<>>, <<>>, <<>>, <<>>, <<>>)
    /\ log' = <<>>
    /\ arg' = <<>>
    /\ before' = Snapshot
    /\ UNCHANGED <<signAlgorithm, createKeys, zskFile, kskFile, entropy, calls, keys>>

(***************************************************************************)
(* The session after construction                                          *)
(***************************************************************************)
\* What a stream may hold when the session is handed it: nothing, a key
\* written earlier (of either family and size), bytes that are no PEM
\* block, or a PEM block that is no PKCS#8 key.
PriorContents(id) ==
    { <<>>,
      EncodeToMemory(MarshalPKCS8PrivateKey(RSAKey(2048, id))),
      EncodeToMemory(MarshalPKCS8PrivateKey(RSAKey(1024, id))),
      EncodeToMemory(MarshalPKCS8PrivateKey(ECKey(id))),
      <<"x", "x">>,
      EncodeToMemory(<<"x">>) }

Init ==
    /\ signAlgorithm \in SignAlgorithms
    /\ createKeys \in BOOLEAN
    /\ \E d \in PriorContents("z0") : zskFile = File(d, 0)
    /\ \E d \in PriorContents("k0") : kskFile = File(d, 0)
    /\ entropy = 0
    /\ calls = 0
    /\ keys = <<>>
    /\ arg = <<>>
    /\ ret = Ret("none", "nil", <<>>, <<>>, <<>>, <<>>, <<>>)
    /\ log = <<>>
    /\ before = Snapshot

Next == GetKeys \/ GetPublicKeyBytes \/ DestroyAllKeys \/ End

Spec == Init /\ [][Next]_vars

(***************************************************************************)
(* Properties                                                              *)
(***************************************************************************)
\* The key a stream holds: what a read from offset 0 decodes, <<>> if none.
StoredKey(f) == readerToPrivateKey(File(f.data, 0))

GetKeysReturned == ret.op = "GetKeys"

Generating == before.createKeys /\ Supported(before.signAlgorithm)

FromStart == before.zsk.pos = 0 /\ before.ksk.pos = 0

Did(ops) == \E i \in DOMAIN log : log[i].op \in ops

IOFailed == \E i \in DOMAIN log : log[i].op \in {"write", "seek"} /\ ~log[i].ok

ContentKept == zskFile.data = before.zsk.data /\ kskFile.data = before.ksk.data

\* C1: with createKeys on, a supported algorithm and both streams at offset
\* 0, a GetKeys that succeeds returns the two keys generated during this
\* call, which are the keys each stream then decodes to from offset 0, and
\* never the key a stream held before.
C1_FreshKeysReturned ==
    (GetKeysReturned /\ ret.err = "nil" /\ Generating /\ FromStart)
        => /\ ret.newZsk = <<ret.keys[1].zskSigner>>
           /\ ret.newKsk = <<ret.keys[1].kskSigner>>
           /\ StoredKey(zskFile) = ret.newZsk
           /\ StoredKey(kskFile) = ret.newKsk
           /\ StoredKey(before.zsk) # <<ret.keys[1].zskSigner>>
           /\ StoredKey(before.ksk) # <<ret.keys[1].kskSigner>>

BothHeldKeys == StoredKey(before.zsk) # <<>> /\ StoredKey(before.ksk) # <<>>

ReturnedStoredKeys ==
    /\ ret.err = "nil"
    /\ ret.keys = <<SigKeys(StoredKey(before.zsk)[1], StoredKey(before.ksk)[1])>>

C2_Frame ==
    /\ ContentKept
    /\ ~Did({"gen", "write", "seek"})
    /\ entropy = before.entropy

\* C2 as claimed: with createKeys off and a valid key in both streams,
\* GetKeys writes nothing, generates nothing and returns exactly the two
\* stored keys.
C2_Original ==
    (GetKeysReturned /\ ~before.createKeys /\ BothHeldKeys)
        => C2_Frame /\ ReturnedStoredKeys

\* C2 as amended: with createKeys off and a valid key in both streams,
\* GetKeys writes nothing and generates nothing; when both streams are at
\* offset 0 as the call begins, it returns exactly the two stored keys.
C2_StoredKeysReturned ==
    (GetKeysReturned /\ ~before.createKeys /\ BothHeldKeys)
        => C2_Frame /\ (FromStart => ReturnedStoredKeys)

\* C2 witness: a first GetKeys with createKeys off returned the stored
\* 1024-bit RSA ZSK and P-256 KSK.
C2_Witness ==
    /\ GetKeysReturned /\ ~before.createKeys /\ BothHeldKeys /\ FromStart
    /\ ReturnedStoredKeys
    /\ ret.keys[1].zskSigner = RSAKey(1024, "z0")
    /\ ret.keys[1].kskSigner = ECKey("k0")

Unsupported == ret.err = "undefined sign algorithm"

StreamsKept == zskFile = before.zsk /\ kskFile = before.ksk

\* C3: under an algorithm that is neither RSA_SHA256 nor ECDSA_P256_SHA256,
\* GetKeys with createKeys on and GetPublicKeyBytes both fail with the
\* unsupported-algorithm error, without a write, without a generated key and
\* with both streams as they were.
C3_UnsupportedAlgorithm ==
    /\ (GetKeysReturned /\ before.createKeys /\ ~Supported(before.signAlgorithm))
          => /\ Unsupported /\ ret.keys = <<>>
             /\ StreamsKept
             /\ ~Did({"gen", "write"})
             /\ entropy = before.entropy
    /\ (ret.op = "GetPublicKeyBytes" /\ ~Supported(before.signAlgorithm))
          => /\ Unsupported
             /\ StreamsKept
             /\ entropy = before.entropy

\* C3 witness: both operations were called, GetKeys earlier and
\* GetPublicKeyBytes last, over streams that hold keys.
C3_Witness ==
    /\ ret.op = "GetPublicKeyBytes" /\ Unsupported
    /\ createKeys /\ ~Supported(signAlgorithm)
    /\ calls = MaxCalls
    /\ StoredKey(zskFile) # <<>> /\ StoredKey(kskFile) # <<>>

C5_IOFailureStops ==
    GetKeysReturned =>
        \A i \in DOMAIN log :
            (log[i].op \in {"write", "seek"} /\ ~log[i].ok)
                => i = Len(log) /\ ret.err # "nil" /\ ret.keys = <<>>

IsKey(k, fam, bits) == k # <<>> /\ k[1].fam = fam /\ k[1].bits = bits

\* C6 as claimed: after a successful GetKeys with createKeys on, under
\* RSA_SHA256 the KSK stream and signer hold a 2048-bit RSA key and the ZSK
\* stream and signer a 1024-bit RSA key; under ECDSA_P256_SHA256 both
\* streams and both signers hold a P-256 key.
C6_RolesAndFamilies ==
    (GetKeysReturned /\ ret.err = "nil" /\ before.createKeys)
        => IF before.signAlgorithm = RsaSha256
           THEN /\ IsKey(<<ret.keys[1].kskSigner>>, "RSA", 2048)
                /\ IsKey(StoredKey(kskFile), "RSA", 2048)
                /\ IsKey(<<ret.keys[1].zskSigner>>, "RSA", 1024)
                /\ IsKey(StoredKey(zskFile), "RSA", 1024)
           ELSE /\ IsKey(<<ret.keys[1].kskSigner>>, "EC", 256)
                /\ IsKey(StoredKey(kskFile), "EC", 256)
                /\ IsKey(<<ret.keys[1].zskSigner>>, "EC", 256)
                /\ IsKey(StoredKey(zskFile), "EC", 256)

\* What GetKeys would read from two streams with createKeys off.
WouldRead(zf, kf) == loadKeys(NotGenerated(zf, kf, 0)).keys

\* C7: DestroyAllKeys and End can be called in every state, return no
\* error, and leave the content and cursor of both streams and the Context
\* as they were, so that GetKeys reads the same keys after them as before.
C7_NoOps ==
    /\ ENABLED DestroyAllKeys
    /\ ENABLED End
    /\ ret.op \in {"DestroyAllKeys", "End"}
          => /\ ret.err = "nil"
             /\ StreamsKept
             /\ signAlgorithm = before.signAlgorithm
             /\ createKeys = before.createKeys
             /\ entropy = before.entropy
             /\ keys = before.keys
             /\ WouldRead(zskFile, kskFile) = WouldRead(before.zsk, before.ksk)

\* C7 witness: DestroyAllKeys after a GetKeys that returned keys; the
\* streams still hold them, their cursors still at the end.
C7_Witness ==
    /\ ret.op = "DestroyAllKeys"
    /\ calls > 0 /\ keys # <<>>
    /\ zskFile.pos > 0 /\ kskFile.pos > 0
    /\ StoredKey(zskFile) # <<>> /\ StoredKey(kskFile) # <<>>

GenErrors == {"generate", "marshal"}

PemOf(k) == EncodeToMemory(MarshalPKCS8PrivateKey(k[1]))

C9_OnlyTheNewKey ==
    (GetKeysReturned /\ ret.err = "nil" /\ Generating /\ FromStart /\ ~IOFailed)
        => /\ zskFile.data = PemOf(ret.newZsk)
           /\ kskFile.data = PemOf(ret.newKsk)

\* C10 as claimed: from two streams at offset 0, under a supported
\* algorithm, every Write of key generation is followed at once by a Seek on
\* the same stream, and every read of GetKeys begins at offset 0.
C10_RewoundBeforeRead ==
    (GetKeysReturned /\ Supported(before.signAlgorithm) /\ FromStart)
        => /\ \A i \in DOMAIN log :
                log[i].op = "write"
                    => /\ i < Len(log)
                       /\ log[i + 1].op = "seek"
                       /\ log[i + 1].role = log[i].role
           /\ \A i \in DOMAIN log : log[i].op = "read" => log[i].at = 0

IsRead(e) == e.op = "read"

Reads == SelectSeq(log, IsRead)

\* What a read that begins at offset at of stream f decodes, <<>> when the
\* bytes from there on are empty, hold no PEM block or hold no PKCS#8 key.
DecodedFrom(f, at) == readerToPrivateKey(File(f.data, at))

\* C11: GetKeys reads the ZSK stream before the KSK stream.  A ZSK stream
\* that does not decode ends the call with a decode error before the KSK
\* stream is read; a KSK stream that does not decode ends it with a decode
\* error; in both cases no SigKeys is returned.  SigKeys is returned only
\* without an error and holds exactly the two keys that were decoded.
C11_DecodeOrFail ==
    GetKeysReturned
        => /\ Len(Reads) <= 2
           /\ Reads = <<>> => ret.err # "nil" /\ ret.keys = <<>>
           /\ ret.keys # <<>> => ret.err = "nil" /\ Len(Reads) = 2
           /\ Reads # <<>>
                => /\ Reads[1].role = "zsk"
                   /\ Reads = SubSeq(log, Len(log) - Len(Reads) + 1, Len(log))
                   /\ IF DecodedFrom(zskFile, Reads[1].at) = <<>>
                      THEN /\ Len(Reads) = 1
                           /\ ret.err = "decode" /\ ret.keys = <<>>
                           /\ ~before.createKeys => kskFile = before.ksk
                      ELSE /\ Len(Reads) = 2
                           /\ Reads[2].role = "ksk"
                           /\ IF DecodedFrom(kskFile, Reads[2].at) = <<>>
                              THEN ret.err = "decode" /\ ret.keys = <<>>
                              ELSE /\ ret.err = "nil"
                                   /\ ret.keys =
                                        <<SigKeys(DecodedFrom(zskFile, Reads[1].at)[1],
                                                  DecodedFrom(kskFile, Reads[2].at)[1])>>

\* C11 witness: the ZSK stream held a key and the KSK stream a PEM block that
\* is no PKCS#8 key; both were read and the call returned the decode error.
C11_Witness ==
    /\ GetKeysReturned /\ ~before.createKeys /\ FromStart
    /\ StoredKey(before.zsk) # <<>>
    /\ before.ksk.data = EncodeToMemory(<<"x">>)
    /\ Len(Reads) = 2
    /\ ret.err = "decode" /\ ret.keys = <<>>

PublicKeyBytesReturned == ret.op = "GetPublicKeyBytes"

\* The encoder Context.signAlgorithm names, applied to a signer.
Encoded(alg, signer) ==
    IF alg = RsaSha256 THEN getRSAPubKeyBytes(signer)
    ELSE getECDSAPubKeyBytes(signer)

KskEncoded == Encoded(before.signAlgorithm, arg[1].kskSigner)

ZskEncoded == Encoded(before.signAlgorithm, arg[1].zskSigner)

\* C12: GetPublicKeyBytes applies the encoder of Context.signAlgorithm to
\* the KSK signer first and to the ZSK signer second and returns the ZSK
\* bytes as its first result and the KSK bytes as its second; when the KSK
\* encoding fails it returns that error and the encoder is not applied to
\* the ZSK; under an unsupported algorithm it returns the error and the
\* encoder is applied to neither key.
C12_PublicKeyOrder ==
    PublicKeyBytesReturned
        => IF ~Supported(before.signAlgorithm)
           THEN Unsupported /\ log = <<>>
           ELSE /\ log # <<>>
                /\ log[1] = Ev("encode", "ksk", KskEncoded.err = "nil", 0)
                /\ IF KskEncoded.err # "nil"
                   THEN Len(log) = 1 /\ ret.err = KskEncoded.err
                   ELSE /\ Len(log) = 2
                        /\ log[2] = Ev("encode", "zsk", ZskEncoded.err = "nil", 0)
                        /\ ret.err = ZskEncoded.err
                        /\ ret.zskBytes = ZskEncoded.bytes
                        /\ ret.kskBytes = KskEncoded.bytes

\* C12 witness: under RSA_SHA256 the bytes of an RSA ZSK and an RSA KSK were
\* returned, each in its place.
C12_Witness ==
    /\ PublicKeyBytesReturned /\ before.signAlgorithm = RsaSha256
    /\ arg = <<SigKeys(RSAKey(1024, "z0"), RSAKey(2048, "k0"))>>
    /\ ret.err = "nil" /\ Len(log) = 2
    /\ ret.zskBytes = <<"pub", "z0">>
    /\ ret.kskBytes = <<"pub", "k0">>

\* C13 as claimed: whenever GetPublicKeyBytes returns an error, both byte
\* sequences it returns are empty.
C13_Original ==
    (PublicKeyBytesReturned /\ ret.err # "nil")
        => ret.zskBytes = <<>> /\ ret.kskBytes = <<>>

\* C13 as amended: when GetPublicKeyBytes returns an error for an
\* unsupported algorithm, both byte sequences are empty; when the KSK
\* encoding failed, the ZSK bytes are empty; when the KSK encoding succeeded
\* and the ZSK encoding failed, the error comes together with the KSK
\* public-key bytes.
C13_BytesOnError ==
    (PublicKeyBytesReturned /\ ret.err # "nil")
        => /\ ~Supported(before.signAlgorithm)
                => ret.zskBytes = <<>> /\ ret.kskBytes = <<>>
           /\ (Len(log) = 1 /\ ~log[1].ok) => ret.zskBytes = <<>>
           /\ Len(log) = 2
                => /\ log[1].ok /\ ~log[2].ok
                   /\ ret.kskBytes = KskEncoded.bytes
                   /\ ret.kskBytes # <<>>

\* C13 witness: under RSA_SHA256 the RSA KSK was encoded, the P-256 ZSK was
\* not, and the KSK bytes were returned with the error.
C13_Witness ==
    /\ PublicKeyBytesReturned /\ before.signAlgorithm = RsaSha256
    /\ arg = <<SigKeys(ECKey("z0"), RSAKey(2048, "k0"))>>
    /\ ret.err # "nil" /\ Len(log) = 2
    /\ ret.kskBytes = <<"pub", "k0">>

=============================================================================
